---------------------------- MODULE Spec2Model ----------------------------
(***************************************************************************)
(* Request understanding and workflow orchestration of probaah:            *)
(*   plugins/ai/orchestrator.py   ProbaahAIOrchestrator                    *)
(*   plugins/ai/mdcrow_agent.py   MDCrowAgent                              *)
(* with the collaborators they call (packmol_wrapper.py,                   *)
(* visual_validation.py, tools/existing_probaah_tools.py).                 *)
(* and the workflow of plugins/ai/workflows/gas_substitution.py, the       *)
(* temporary directories of one PackmolWrapper and threads that share one  *)
(* MDCrowAgent.                                                            *)
(*                                                                         *)
(* A request text is a sequence of whitespace-free tokens joined by single *)
(* blanks, optionally padded with a leading and a trailing blank.  The     *)
(* keywords of the source contain no blank, so Python's `kw in text` and   *)
(* re.search(kw, text) hold exactly when some token contains kw.           *)
(***************************************************************************)
EXTENDS Integers, Sequences, FiniteSets, TLC

VARIABLES
    sys,                    \* the object or operation a behaviour drives
    request,                \* the request text: [tokens, padded]
    calls,                  \* number of process_request calls made so far
    cursor,                 \* loop index of the running step loop
    started,                \* steps whose loop iteration has begun, in order
    invoked,                \* collaborator operations whose body was entered, in order
    received,               \* orchestrator: the input file each collaborator operation was
                            \* given, in call order
    faulted,                \* some collaborator could not do its work in the current call
    command,                \* orchestrator: the parsed command
    results,                \* orchestrator: the results of execute_workflow
    workflow_history,       \* orchestrator: self.workflow_history
    opc,                    \* orchestrator: position in process_request
    toolsLoaded,            \* agent: _initialize_tools imported the tools
    intent,                 \* agent: the intent analysis of the current request
    tool_plan,              \* agent: the tool plan
    tool_results,           \* agent: the tool_results dict, in insertion order
    response,               \* agent: the response of _synthesize_response
    conversation_history,   \* agent: self.conversation_history
    apc,                    \* agent: position in process_request
    extracted,              \* the entity bags returned by _extract_entities, in call order
    gpc,                    \* gas workflow: position in execute_complete_workflow
    flags,                  \* gas workflow: the visual_validation, run_analysis and
                            \* create_presentation arguments of the call
    workflow_results,       \* gas workflow: the workflow_results dictionary
    progress,               \* gas workflow: per progress task, the completed values
                            \* its updates gave, in order
    temp_dir,               \* packmol: self.temp_dir, 0 for None
    dirs,                   \* packmol: the temporary directories on disk
    packmol_result,         \* packmol: the dictionary of the last workflow call
    threads                 \* agent: the position of each thread inside process_request

vars == << sys, request, calls, cursor, started, invoked, faulted,
           command, results, workflow_history, opc, received,
           toolsLoaded, intent, tool_plan, tool_results, response,
           conversation_history, apc, extracted,
           gpc, flags, workflow_results, progress,
           temp_dir, dirs, packmol_result, threads >>

orchVars == << command, results, workflow_history, opc, received >>
agentVars == << intent, tool_plan, tool_results, response, conversation_history, apc >>
entityVars == << extracted >>
gasVars == << gpc, flags, workflow_results, progress >>
packmolVars == << temp_dir, dirs, packmol_result >>
threadVars == << threads >>
restVars == << entityVars, gasVars, packmolVars, threadVars >>

None == "None"

NoFlags == [visual_validation |-> FALSE, run_analysis |-> FALSE, create_presentation |-> FALSE]

NoWorkflowResults == [steps |-> << >>, success |-> FALSE, error |-> None]

NoPackmolResult == [success |-> FALSE, error |-> None, temp_dir |-> 0]

\* The state of the parts a behaviour does not drive.
ToolsAtRest ==
    /\ extracted = << >>
    /\ gpc = "idle"
    /\ flags = NoFlags
    /\ workflow_results = NoWorkflowResults
    /\ progress = << >>
    /\ temp_dir = 0
    /\ dirs = {}
    /\ packmol_result = NoPackmolResult

RestInit == ToolsAtRest /\ threads = << >>

-----------------------------------------------------------------------------
(* Bounds *)

MaxClauses == 3         \* clauses of a request that is executed
MaxTokens == 4          \* tokens of a request that is only parsed and planned
MaxCalls == 2           \* process_request calls in one behaviour
MaxPlan == 3            \* steps of a tool plan handed to _execute_tools directly
MaxWords == 3           \* words of a request whose parameters are resolved

-----------------------------------------------------------------------------
(* Text *)

\* The keywords of the source's tables that occur in the lower-cased token.
Sub(w) ==
    CASE w = "substitute"   -> {"substitute"}
      [] w = "analyze"      -> {"analyze"}
      [] w = "validate"     -> {"validate"}
      [] w = "presentation" -> {"presentation"}
      [] w = "visualize"    -> {"visual", "visualize"}
      [] w = "workflow"     -> {"workflow"}
      [] w = "complete"     -> {"complete"}
      [] w = "then"         -> {"then"}
      [] w = "Then"         -> {"then"}
      [] w = "and"          -> {"and"}
      [] w = "command"      -> {"and"}
      [] w = "remove"       -> {"remove"}
      [] w = "add"          -> {"add"}
      [] w = "study"        -> {"study"}
      [] OTHER              -> {}

\* kw in request.lower(), re.search(kw, request_lower)
HasKeyword(tokens, kw) == \E i \in DOMAIN tokens : kw \in Sub(tokens[i])

SearchAny(tokens, kws) == \E kw \in kws : HasKeyword(tokens, kw)

\* The tokens (?:then|and|,) matches as a whole, ignoring case.
IsConjunction(w) == w \in {"then", "Then", "and", ","}

\* re.findall of file pattern n on one token.  Pattern 1 is
\* (\w+\.(xyz|pdb|bgf|traj|car|mol2)), pattern 2 needs an underscore before the
\* dot, pattern 3 is ([a-zA-Z0-9_-]+\.[a-zA-Z0-9]+).
FilePattern(n, w) ==
    CASE w \in {"a.xyz", "sample.xyz", "traj.xyz"} /\ n \in {1, 3} -> << w >>
      [] w = "b_c.xyz" /\ n \in {1, 2, 3}                          -> << w >>
      [] OTHER                                                     -> << >>

\* re.findall of file pattern n on the text, from token i on.
RECURSIVE FindAll(_, _, _)
FindAll(n, tokens, i) ==
    IF i > Len(tokens) THEN << >>
    ELSE FilePattern(n, tokens[i]) \o FindAll(n, tokens, i + 1)

\* re.findall(r'\d+', ...) on one token: the digit runs as integers.
Digits(w) ==
    CASE w \in {"O2", "N2"} -> << 2 >>
      [] w = "5"            -> << 5 >>
      [] OTHER              -> << >>

\* The digit runs of the text, from token i on.
RECURSIVE NumbersFrom(_, _)
NumbersFrom(tokens, i) ==
    IF i > Len(tokens) THEN << >>
    ELSE Digits(tokens[i]) \o NumbersFrom(tokens, i + 1)

\* The leading run of word characters (\w+) of a token; "" when it has none.
WordHead(w) ==
    CASE w = ","          -> ""
      [] w = "title:"     -> "title"
      [] w = "a.xyz"      -> "a"
      [] w = "sample.xyz" -> "sample"
      [] w = "traj.xyz"   -> "traj"
      [] OTHER            -> w

\* re.search(kw + r'\s+(\w+)', request, re.IGNORECASE): the group of the
\* first match, None without a match.  The keyword must end a token and the
\* next token begin with a word character.
GroupAfter(tokens, kw) ==
    LET hits == { i \in DOMAIN tokens :
                    /\ tokens[i] = kw
                    /\ i < Len(tokens)
                    /\ WordHead(tokens[i + 1]) # "" }
    IN  IF hits = {} THEN None
        ELSE WordHead(tokens[(CHOOSE i \in hits : \A m \in hits : i <= m) + 1])

\* The tokens up to the first comma, from token i on.
RECURSIVE UpToComma(_, _)
UpToComma(tokens, i) ==
    IF i > Len(tokens) \/ tokens[i] = "," THEN << >>
    ELSE << tokens[i] >> \o UpToComma(tokens, i + 1)

\* re.search(r'title[:\s]+([^,\n]+)', request, re.IGNORECASE): the stripped
\* group of the first match, << >> without a match.  "title" must be
\* followed by a colon or white space and then by a character that is no
\* comma.
TitleGroup(tokens) ==
    LET hits == { i \in DOMAIN tokens :
                    /\ tokens[i] \in {"title", "title:"}
                    /\ i < Len(tokens)
                    /\ tokens[i + 1] # "," }
    IN  IF hits = {} THEN << >>
        ELSE UpToComma(tokens, (CHOOSE i \in hits : \A m \in hits : i <= m) + 1)

\* All sequences over S of length at most n.
SeqsUpTo(S, n) == UNION { [1..k -> S] : k \in 0..n }

-----------------------------------------------------------------------------
(* ProbaahAIOrchestrator: parsing *)

patterns ==
    << [action |-> "substitute",   kws |-> {"substitute", "replace", "swap"}],
       [action |-> "remove",       kws |-> {"remove", "delete", "eliminate"}],
       [action |-> "add",          kws |-> {"add", "insert", "place"}],
       [action |-> "analyze",      kws |-> {"analyze", "analysis", "examine", "study"}],
       [action |-> "validate",     kws |-> {"validate", "verify", "check", "inspect"}],
       [action |-> "presentation", kws |-> {"presentation", "slides", "powerpoint", "ppt"}],
       [action |-> "visualize",    kws |-> {"visualize", "render", "display", "show"}],
       [action |-> "workflow",     kws |-> {"workflow", "pipeline", "process", "complete"}] >>

action_patterns ==
    << [action |-> "substitute",   kws |-> {"substitute", "replace", "swap"}],
       [action |-> "analyze",      kws |-> {"analyze", "analysis", "examine"}],
       [action |-> "validate",     kws |-> {"validate", "verify", "check"}],
       [action |-> "presentation", kws |-> {"presentation", "slides", "powerpoint"}],
       [action |-> "visualize",    kws |-> {"visualize", "render", "display"}] >>

\* The first entry of the table, in declaration order, with a keyword in the text.
FirstMatch(table, tokens, default) ==
    LET hits == { k \in DOMAIN table : SearchAny(tokens, table[k].kws) }
    IN  IF hits = {} THEN default
        ELSE table[CHOOSE k \in hits : \A m \in hits : k <= m].action

PrimaryAction(tokens) == FirstMatch(patterns, tokens, None)

_identify_action(tokens) == FirstMatch(action_patterns, tokens, "unknown")

_estimate_step_time(action) ==
    CASE action = "substitute"   -> 60
      [] action = "analyze"      -> 30
      [] action = "validate"     -> 45
      [] action = "presentation" -> 20
      [] action = "visualize"    -> 15
      [] OTHER                   -> 10

OrchExtractFiles(tokens) ==
    FindAll(1, tokens, 1) \o FindAll(2, tokens, 1) \o FindAll(3, tokens, 1)

\* Whether re.split matches token i as a separator: r'\s+(?:then|and|,)\s+'
\* needs white space on both sides, and the white space after a match is
\* consumed by that match.
RECURSIVE SplitsAt(_, _)
SplitsAt(req, i) ==
    /\ i \in DOMAIN req.tokens
    /\ IsConjunction(req.tokens[i])
    /\ (i > 1 \/ req.padded)
    /\ (i < Len(req.tokens) \/ req.padded)
    /\ (i = 1 \/ ~SplitsAt(req, i - 1))

\* re.split followed by strip(): the token runs between the matches.
RECURSIVE SplitFrom(_, _, _)
SplitFrom(req, i, cur) ==
    IF i > Len(req.tokens) THEN << cur >>
    ELSE IF SplitsAt(req, i) THEN << cur >> \o SplitFrom(req, i + 1, << >>)
    ELSE SplitFrom(req, i + 1, Append(cur, req.tokens[i]))

SplitParts(req) == SplitFrom(req, 1, << >>)

MakeStep(action, description) ==
    [action |-> action, description |-> description,
     estimated_time |-> _estimate_step_time(action)]

RECURSIVE StepsOfParts(_, _)
StepsOfParts(parts, i) ==
    IF i > Len(parts) THEN << >>
    ELSE (IF parts[i] # << >>
          THEN << MakeStep(_identify_action(parts[i]), parts[i]) >>
          ELSE << >>) \o StepsOfParts(parts, i + 1)

\* The guard of the multi-step path.
HasConjunctionGuard(req) ==
    HasKeyword(req.tokens, "then") \/ HasKeyword(req.tokens, "and")

_infer_workflow_steps(req, primary_action) ==
    IF HasConjunctionGuard(req)
    THEN StepsOfParts(SplitParts(req), 1)
    ELSE << MakeStep(primary_action, req.tokens) >>

\* The keys _extract_parameters sets.  density needs "density <number>",
\* count needs "<number> molecules|atoms|radicals" and analysis_options one of
\* bond, rdf, energy, plot, none of which the requests here contain; no key
\* other than these four is ever set.
_extract_parameters(tokens) ==
    IF SearchAny(tokens, {"visual", "validate", "check", "inspect"})
    THEN {"visual_validation"} ELSE {}

\* command['parameters'].get('title', 'Research Results')
PresentationTitle(parameters) ==
    IF "title" \in parameters THEN << "title" >> ELSE << "Research", "Results" >>

parse_natural_language_request(req) ==
    [primary_action |-> PrimaryAction(req.tokens),
     files          |-> OrchExtractFiles(req.tokens),
     parameters     |-> _extract_parameters(req.tokens),
     workflow_steps |-> _infer_workflow_steps(req, PrimaryAction(req.tokens))]

NoCommand == [primary_action |-> None, files |-> << >>, parameters |-> {},
              workflow_steps |-> << >>]

-----------------------------------------------------------------------------
(* MDCrowAgent: intent and planning *)

intents ==
    << [name |-> "gas_substitution", kws |-> {"substitute", "replace", "swap", "remove", "add"}],
       [name |-> "analysis",         kws |-> {"analyze", "analysis", "examine", "study", "investigate"}],
       [name |-> "validation",       kws |-> {"validate", "verify", "check", "inspect", "review"}],
       [name |-> "presentation",     kws |-> {"presentation", "slides", "powerpoint", "report"}],
       [name |-> "visualization",    kws |-> {"visualize", "render", "display", "show", "plot"}],
       [name |-> "information",      kws |-> {"what", "how", "why", "explain", "describe"}],
       [name |-> "workflow",         kws |-> {"workflow", "pipeline", "process", "complete", "end-to-end"}] >>

\* sum(1 for keyword in keywords if keyword in request_lower)
IntentScore(tokens, k) == Cardinality({ kw \in intents[k].kws : HasKeyword(tokens, kw) })

\* A maximum that takes the last of the intents with the highest score.
PrimaryIntentLast(tokens) ==
    LET score  == [k \in DOMAIN intents |-> IntentScore(tokens, k)]
        scored == { k \in DOMAIN intents : score[k] > 0 }
        best   == { k \in scored : \A m \in scored : score[m] <= score[k] }
    IN  IF scored = {} THEN "general"
        ELSE intents[CHOOSE k \in best : \A m \in best : k >= m].name

\* max(intent_scores, key=intent_scores.get): the first key, in insertion
\* order, with the highest score; 'general' when no intent scored.
PrimaryIntent(tokens) ==
    LET score  == [k \in DOMAIN intents |-> IntentScore(tokens, k)]
        scored == { k \in DOMAIN intents : score[k] > 0 }
        best   == { k \in scored : \A m \in scored : score[m] <= score[k] }
    IN  IF scored = {} THEN "general"
        ELSE intents[CHOOSE k \in best : \A m \in best : k <= m].name

\* File entities taken with the generic name.extension pattern as well.
ExtractFilesAnyExtension(tokens) ==
    FindAll(1, tokens, 1) \o FindAll(2, tokens, 1) \o FindAll(3, tokens, 1)

\* MDCrowAgent._extract_entities: the files of the two file patterns and the
\* numbers.
AgentExtractFiles(tokens) == FindAll(1, tokens, 1) \o FindAll(2, tokens, 1)

AgentExtractNumbers(tokens) == NumbersFrom(tokens, 1)

\* The intent analysis: the primary intent, every intent's score (an intent
\* that scored nothing has no entry in intent_scores; it has 0 here) and the
\* entities.
_analyze_intent(tokens) ==
    [primary_intent |-> PrimaryIntent(tokens),
     intent_scores  |-> [k \in DOMAIN intents |-> IntentScore(tokens, k)],
     files          |-> AgentExtractFiles(tokens),
     numbers        |-> AgentExtractNumbers(tokens)]

NoIntent == [primary_intent |-> None, intent_scores |-> << >>,
             files |-> << >>, numbers |-> << >>]

\* The values of the parameters a step is planned with: the file
\* (input_structure, trajectory_file), the species, the count and the title.
Args(file, remove_species, add_species, count, title) ==
    [file |-> file, remove_species |-> remove_species, add_species |-> add_species,
     count |-> count, title |-> title]

NoArgs == Args(None, None, None, 0, << >>)

FirstFile(tokens) ==
    LET files == AgentExtractFiles(tokens)
    IN  IF files = << >> THEN None ELSE files[1]

_extract_substitution_parameters(tokens) ==
    LET remove_match == GroupAfter(tokens, "remove")
        add_match    == GroupAfter(tokens, "add")
        numbers      == AgentExtractNumbers(tokens)
    IN  Args(FirstFile(tokens),
             IF remove_match = None THEN "O2" ELSE remove_match,
             IF add_match = None THEN "O" ELSE add_match,
             IF numbers = << >> THEN 100 ELSE numbers[1],
             << >>)

_extract_analysis_parameters(tokens) == Args(FirstFile(tokens), None, None, 0, << >>)

_extract_presentation_parameters(tokens) ==
    LET title_match == TitleGroup(tokens)
    IN  Args(None, None, None, 0,
             IF title_match = << >> THEN << "Research", "Results" >> ELSE title_match)

WithArgs(step, args) == [step EXCEPT !.args = args]

\* The keyword arguments each planned step passes to its collaborator.
SubstitutionParams == {"input_structure", "remove_species", "add_species", "count", "density"}
AnalysisParams == {"trajectory_file", "bonds", "rdf", "energy", "plots"}
PresentationParams == {"analysis_dir", "title"}
ValidationParams == {"interactive"}

ToolStep(tool, action, params, priority) ==
    [tool |-> tool, action |-> action, params |-> params,
     has_priority |-> TRUE, priority |-> priority, id |-> 0, args |-> NoArgs]

PackmolStep == ToolStep("packmol", "gas_substitution_workflow", SubstitutionParams, 1)
ValidateStep(priority) == ToolStep("viamd", "validate_structure", ValidationParams, priority)
AnalyzeStep(priority) == ToolStep("existing_analysis", "analyze_trajectory", AnalysisParams, priority)
PresentStep(priority) == ToolStep("existing_analysis", "create_presentation", PresentationParams, priority)

\* A workflow plan that analyzes before it validates.
PlanWorkflowAnalyzeFirst(tokens) ==
    (IF HasKeyword(tokens, "substitute") THEN << PackmolStep >> ELSE << >>)
    \o (IF HasKeyword(tokens, "analyze") THEN << AnalyzeStep(3) >> ELSE << >>)
    \o (IF HasKeyword(tokens, "validate") THEN << ValidateStep(2) >> ELSE << >>)
    \o (IF HasKeyword(tokens, "presentation") THEN << PresentStep(4) >> ELSE << >>)

_plan_workflow_steps(tokens) ==
    (IF HasKeyword(tokens, "substitute")
     THEN << WithArgs(PackmolStep, _extract_substitution_parameters(tokens)) >> ELSE << >>)
    \o (IF HasKeyword(tokens, "validate") THEN << ValidateStep(2) >> ELSE << >>)
    \o (IF HasKeyword(tokens, "analyze")
        THEN << WithArgs(AnalyzeStep(3), _extract_analysis_parameters(tokens)) >> ELSE << >>)
    \o (IF HasKeyword(tokens, "presentation")
        THEN << WithArgs(PresentStep(4), _extract_presentation_parameters(tokens)) >> ELSE << >>)

_plan_tool_usage(tokens, primary_intent) ==
    CASE primary_intent = "gas_substitution" ->
             << WithArgs(PackmolStep, _extract_substitution_parameters(tokens)) >>
             \o (IF HasKeyword(tokens, "validate") \/ HasKeyword(tokens, "check")
                 THEN << ValidateStep(2) >> ELSE << >>)
      [] primary_intent = "analysis"     ->
             << WithArgs(AnalyzeStep(1), _extract_analysis_parameters(tokens)) >>
      [] primary_intent = "validation"   -> << ValidateStep(1) >>
      [] primary_intent = "presentation" ->
             << WithArgs(PresentStep(1), _extract_presentation_parameters(tokens)) >>
      [] primary_intent = "workflow"     -> _plan_workflow_steps(tokens)
      [] OTHER                           -> << >>

\* The plan with each step tagged by its position in the list.
Numbered(plan) == [k \in DOMAIN plan |-> [plan[k] EXCEPT !.id = k]]

\* key=lambda x: x.get('priority', 0)
SortKey(step) == IF step.has_priority THEN step.priority ELSE 0

\* An unstable sort: the step goes before the steps of equal key.
RECURSIVE InsertSortedStrict(_, _)
InsertSortedStrict(sorted, step) ==
    IF sorted = << >> THEN << step >>
    ELSE IF SortKey(sorted[Len(sorted)]) < SortKey(step) THEN Append(sorted, step)
    ELSE Append(InsertSortedStrict(SubSeq(sorted, 1, Len(sorted) - 1), step),
                sorted[Len(sorted)])

\* list.sort: the step goes behind every step whose key is not larger.
RECURSIVE InsertSorted(_, _)
InsertSorted(sorted, step) ==
    IF sorted = << >> THEN << step >>
    ELSE IF SortKey(sorted[Len(sorted)]) <= SortKey(step) THEN Append(sorted, step)
    ELSE Append(InsertSorted(SubSeq(sorted, 1, Len(sorted) - 1), step), sorted[Len(sorted)])

RECURSIVE SortFrom(_, _, _)
SortFrom(plan, i, acc) ==
    IF i > Len(plan) THEN acc ELSE SortFrom(plan, i + 1, InsertSorted(acc, plan[i]))

SortByPriority(plan) == SortFrom(plan, 1, << >>)

-----------------------------------------------------------------------------
(* Requests *)

PlanVocab == {"analyze", "hello", "then", "and", ",", "command"}

\* The words the parameter resolvers and the keyword tables tell apart.
TextVocab ==
    {"remove", "add", "O2", "5", "study", "command", "presentation",
     "title", "Results", ","}

\* The requests of the documented scenarios.
ScenarioRequests ==
    { << "remove", "O2" >>,
      << "substitute", "O2", "with", "O", "in", "sample.xyz" >>,
      << "analyze", "traj.xyz", "then", "create", "a", "presentation", "titled", "Results" >> }

TextRequests ==
    { [tokens |-> t, padded |-> FALSE] : t \in ScenarioRequests }
    \cup { [tokens |-> t, padded |-> FALSE] : t \in SeqsUpTo(TextVocab, MaxWords) }

\* The clauses of the requests that are executed.
ClausePhrases ==
    { << "substitute" >>, << "analyze" >>, << "validate" >>, << "presentation" >>,
      << "visualize" >>, << "complete", "workflow" >>, << "hello" >> }

\* c1 then c2 then ... cn
RECURSIVE JoinThen(_, _)
JoinThen(clauses, i) ==
    IF i > Len(clauses) THEN << >>
    ELSE (IF i > 1 THEN << "then" >> ELSE << >>) \o clauses[i] \o JoinThen(clauses, i + 1)

\* The requests that are executed: up to MaxClauses clauses joined by "then",
\* with or without a leading file name.
ExecRequests ==
    { [tokens |-> f \o JoinThen(c, 1), padded |-> FALSE] :
        f \in { << >>, << "a.xyz" >> },
        c \in (SeqsUpTo(ClausePhrases, MaxClauses) \ { << >> }) }

\* Two-step requests whose second fragment names a file of its own.
FragmentRequests ==
    { [tokens |-> f \o c1 \o << "then" >> \o c2 \o << "traj.xyz" >>, padded |-> FALSE] :
        f \in { << >>, << "a.xyz" >> },
        c1 \in { << "substitute" >>, << "analyze" >>, << "validate" >> },
        c2 \in { << "substitute" >>, << "analyze" >>, << "validate" >> } }

\* The requests over the splitting vocabulary, with and without surrounding
\* white space.
PlanRequests ==
    { [tokens |-> t, padded |-> p] : t \in SeqsUpTo(PlanVocab, MaxTokens), p \in BOOLEAN }

NoRequest == [tokens |-> << >>, padded |-> FALSE]

-----------------------------------------------------------------------------
(* Collaborators.  What a call gives back: a value (ok is the value's own *)
(* 'success' / 'approved' entry), None, or a raised exception.             *)

Value(ok, error) == [kind |-> "value", ok |-> ok, error |-> error]
Raise(error) == [kind |-> "raise", ok |-> FALSE, error |-> error]
NoneValue == [kind |-> "None", ok |-> FALSE, error |-> None]

\* The ways the packing collaborator cannot do its work.
PackmolFaults == {"file_missing", "unsupported_format", "unavailable", "nonzero_exit", "timeout"}

\* ProbaahPackmol.gas_substitution_workflow: every failure inside it is caught
\* and given back as a dictionary {'success': False, 'error': str(e)}.
gas_substitution_workflow(outcome) ==
    CASE outcome = "ok"                 -> Value(TRUE, None)
      [] outcome = "file_missing"       -> Value(FALSE, "Structure file not found")
      [] outcome = "unsupported_format" -> Value(FALSE, "Unsupported file format")
      [] OTHER                          -> Value(FALSE, "PACKMOL execution failed")

\* VIAMDIntegration.validate_structure: a failure is caught and given back as
\* a dictionary whose validation_result is not approved.
validate_structure(outcome) ==
    IF outcome = "ok" THEN Value(TRUE, None) ELSE Value(FALSE, "Validation workflow failed")

\* ExistingProbaahTools.analyze_trajectory: the result bundle, or the
\* analyzer's exception raised again.
analyze_trajectory(outcome) ==
    IF outcome = "ok" THEN Value(TRUE, None) ELSE Raise("Trajectory analyzer failed")

\* ExistingProbaahTools.create_presentation: raises ImportError without the
\* generator, and with it calls create_weekly_update_presentation(title=...),
\* which has no such parameter.
create_presentation(outcome) == Raise("Presentation creation failed")

PackmolOutcomes == {"ok"} \cup PackmolFaults
ValidateOutcomes == {"ok", "fault"}
AnalyzeOutcomes == {"ok", "raise"}
PresentOutcomes == {"raise"}

-----------------------------------------------------------------------------
(* ProbaahAIOrchestrator: execution *)

NeedsFile(action) == action \in {"substitute", "analyze", "validate"}

\* What the environment can answer to a step.  "none" is the object kept in
\* self.tools['existing_probaah'] giving back no value from analyze_trajectory
\* without raising; the bundled ExistingProbaahTools gives a dictionary or
\* raises, the orchestrator itself takes whatever the call returns.
OrchOutcomes(action, files) ==
    CASE NeedsFile(action) /\ files = << >> -> {"no_file"}
      [] action = "substitute"   -> PackmolOutcomes
      [] action = "analyze"      -> AnalyzeOutcomes \cup {"none"}
      [] action = "validate"     -> ValidateOutcomes
      [] action = "presentation" -> PresentOutcomes
      [] action = "visualize"    -> {"ok"}
      [] OTHER                   -> {"unknown"}

\* Whether the step reaches a collaborator operation.
OrchCallsCollaborator(action, files) ==
    \/ NeedsFile(action) /\ files # << >>
    \/ action = "presentation"

\* The first file its own fragment names, when it names one.
InputFileOfFragment(step, files) ==
    CASE ~NeedsFile(step.action)                 -> None
      [] OrchExtractFiles(step.description) # << >> -> OrchExtractFiles(step.description)[1]
      [] files = << >>                           -> None
      [] OTHER                                   -> files[1]

\* entities['files'][0] if entities['files'] else None, the file the three
\* executors hand to their collaborator; create_presentation is given no file.
InputFile(step, files) ==
    CASE ~NeedsFile(step.action) -> None
      [] files = << >>           -> None
      [] OTHER                   -> files[1]

_execute_substitute_step(files, outcome) ==
    IF files = << >> THEN Raise("No input file specified")
    ELSE gas_substitution_workflow(outcome)

\* return result: whatever existing_tools.analyze_trajectory(...) gave back
_execute_analyze_step(files, outcome) ==
    CASE files = << >>    -> Raise("No trajectory file specified")
      [] outcome = "none" -> NoneValue
      [] OTHER            -> analyze_trajectory(outcome)

_execute_validate_step(files, outcome) ==
    IF files = << >> THEN Raise("No structure file specified")
    ELSE validate_structure(outcome)

_execute_presentation_step(outcome) == create_presentation(outcome)

_execute_visualize_step == Value(TRUE, None)

\* An error text that leaves the action out.
UnknownActionAnonymous(action) == "Unknown action"

\* f"Unknown action: {action}"
UnknownActionError(action) ==
    CASE action = None       -> "Unknown action: None"
      [] action = "remove"   -> "Unknown action: remove"
      [] action = "add"      -> "Unknown action: add"
      [] action = "workflow" -> "Unknown action: workflow"
      [] OTHER               -> "Unknown action: unknown"

KnownActions == {"substitute", "analyze", "validate", "presentation", "visualize"}

\* step_result['success'] = step_result['output'] is not None
SuccessOfOutput(output) == output.kind # "None"

_execute_step(step, files, outcome) ==
    LET action == step.action
        ret == CASE action = "substitute"   -> _execute_substitute_step(files, outcome)
                 [] action = "analyze"      -> _execute_analyze_step(files, outcome)
                 [] action = "validate"     -> _execute_validate_step(files, outcome)
                 [] action = "presentation" -> _execute_presentation_step(outcome)
                 [] action = "visualize"    -> _execute_visualize_step
                 [] OTHER                   -> NoneValue
    IN  IF ret.kind = "raise"
        THEN [step |-> step, success |-> FALSE, output |-> NoneValue, error |-> ret.error]
        ELSE [step |-> step, success |-> SuccessOfOutput(ret), output |-> ret,
              error |-> IF action \in KnownActions THEN None ELSE UnknownActionError(action)]

\* A loop that never leaves at a failed step.
BreaksLoopNever(step_result) == FALSE

\* if not step_result['success']: results['success'] = False; break
BreaksLoop(step_result) == ~step_result.success

NewResults == [steps |-> << >>, success |-> TRUE, error |-> None]

\* A history that keeps successful workflows only.
StoreOnlySuccess(history, call, res) ==
    IF res.success THEN Append(history, [call |-> call, success |-> res.success])
    ELSE history

\* self.workflow_history.append(results)
StoreInHistory(history, call, res) ==
    Append(history, [call |-> call, success |-> res.success])

Steps == command.workflow_steps

OrchProcessRequest ==
    /\ sys = "orch" /\ opc = "idle" /\ calls < MaxCalls
    /\ \/ request' \in ExecRequests
       \/ request' \in FragmentRequests
    /\ command' = parse_natural_language_request(request')
    /\ opc' = IF command'.workflow_steps = << >> THEN "store" ELSE "loop"
    /\ calls' = calls + 1
    /\ UNCHANGED << sys, cursor, started, invoked, faulted, results, workflow_history, received,
                    toolsLoaded, agentVars, restVars >>

\* for i, step in enumerate(command['workflow_steps']): the call of _execute_step
OrchStepStart ==
    /\ sys = "orch" /\ opc = "loop" /\ cursor < Len(Steps)
    /\ started' = Append(started, cursor + 1)
    /\ invoked' = IF OrchCallsCollaborator(Steps[cursor + 1].action, command.files)
                  THEN Append(invoked, Steps[cursor + 1].action) ELSE invoked
    /\ received' = IF OrchCallsCollaborator(Steps[cursor + 1].action, command.files)
                   THEN Append(received, InputFile(Steps[cursor + 1], command.files))
                   ELSE received
    /\ opc' = "step"
    /\ UNCHANGED << sys, request, calls, cursor, faulted, command, results,
                    workflow_history, toolsLoaded, agentVars, restVars >>

\* _execute_step returns; the result is appended and the loop goes on or breaks
OrchStepFinish ==
    /\ sys = "orch" /\ opc = "step"
    /\ \E outcome \in OrchOutcomes(Steps[cursor + 1].action, command.files) :
         LET step_result == _execute_step(Steps[cursor + 1], command.files, outcome)
         IN  /\ faulted' = (faulted \/ outcome \notin {"ok", "unknown", "none"})
             /\ IF BreaksLoop(step_result)
                THEN /\ results' = [results EXCEPT !.steps = Append(@, step_result),
                                                   !.success = FALSE]
                     /\ opc' = "store"
                ELSE /\ results' = [results EXCEPT !.steps = Append(@, step_result)]
                     /\ opc' = IF cursor + 1 = Len(Steps) THEN "store" ELSE "loop"
    /\ cursor' = cursor + 1
    /\ UNCHANGED << sys, request, calls, started, invoked, command,
                    workflow_history, received, toolsLoaded, agentVars, restVars >>

\* except Exception as e: the progress display raised inside the try block
OrchExecutorRaises ==
    /\ sys = "orch" /\ opc = "loop"
    /\ results' = [results EXCEPT !.success = FALSE, !.error = "Workflow execution failed"]
    /\ opc' = "store"
    /\ UNCHANGED << sys, request, calls, cursor, started, invoked, faulted, command,
                    workflow_history, received, toolsLoaded, agentVars, restVars >>

\* self.workflow_history.append(results); return results.  The results are
\* final in the state before; the locals of the call end with it.
OrchStore ==
    /\ sys = "orch" /\ opc = "store"
    /\ workflow_history' = StoreInHistory(workflow_history, calls, results)
    /\ opc' = "idle"
    /\ request' = NoRequest
    /\ command' = NoCommand
    /\ results' = NewResults
    /\ cursor' = 0
    /\ started' = << >>
    /\ invoked' = << >>
    /\ received' = << >>
    /\ faulted' = FALSE
    /\ UNCHANGED << sys, calls, toolsLoaded, agentVars, restVars >>

OrchNext ==
    \/ OrchProcessRequest
    \/ OrchStepStart
    \/ OrchStepFinish
    \/ OrchExecutorRaises
    \/ OrchStore

-----------------------------------------------------------------------------
(* MDCrowAgent: execution *)

\* The operations of each tool, with the parameters a call must and may pass.
Methods(tool) ==
    CASE tool = "packmol"           -> {"gas_substitution_workflow"}
      [] tool = "viamd"             -> {"validate_structure"}
      [] tool = "existing_analysis" -> {"analyze_trajectory", "create_presentation"}
      [] OTHER                      -> {}

Required(action) ==
    CASE action = "gas_substitution_workflow" ->
             {"input_structure", "remove_species", "add_species", "count", "density", "geometry"}
      [] action = "validate_structure"  -> {"structure_file"}
      [] action = "analyze_trajectory"  -> {"trajectory_file"}
      [] action = "create_presentation" -> {"analysis_dir"}
      [] OTHER                          -> {}

Optional(action) ==
    CASE action = "gas_substitution_workflow" -> {"visual_validation", "output_file"}
      [] action = "validate_structure"  -> {"interactive", "save_images"}
      [] action = "analyze_trajectory"  -> {"output_dir", "bonds", "rdf", "energy", "plots"}
      [] action = "create_presentation" -> {"title", "output_file", "style"}
      [] OTHER                          -> {}

\* method(**parameters) binds: no required parameter missing, none unexpected.
Binds(step) ==
    /\ Required(step.action) \subseteq step.params
    /\ step.params \subseteq (Required(step.action) \cup Optional(step.action))

\* Whether the step reaches the body of a collaborator operation.
AgentCallsCollaborator(step) ==
    toolsLoaded /\ step.action \in Methods(step.tool) /\ Binds(step)

AgentOutcomes(step) ==
    CASE ~toolsLoaded                            -> {"no_tool"}
      [] step.action \notin Methods(step.tool)   -> {"no_method"}
      [] ~Binds(step)                            -> {"type_error"}
      [] step.action = "gas_substitution_workflow" -> PackmolOutcomes
      [] step.action = "validate_structure"      -> ValidateOutcomes
      [] step.action = "analyze_trajectory"      -> AnalyzeOutcomes
      [] OTHER                                   -> PresentOutcomes

CallCollaborator(step, outcome) ==
    CASE outcome = "type_error"                  -> Raise("TypeError")
      [] step.action = "gas_substitution_workflow" -> gas_substitution_workflow(outcome)
      [] step.action = "validate_structure"      -> validate_structure(outcome)
      [] step.action = "analyze_trajectory"      -> analyze_trajectory(outcome)
      [] OTHER                                   -> create_presentation(outcome)

\* f"Method {action} not found"
MethodNotFoundError(action) ==
    CASE action = "no_such_method" -> "Method no_such_method not found"
      [] OTHER                     -> "Method not found"

\* f"Tool {tool_name} not available"
ToolNotAvailableError(tool) ==
    CASE tool = "packmol"           -> "Tool packmol not available"
      [] tool = "viamd"             -> "Tool viamd not available"
      [] tool = "existing_analysis" -> "Tool existing_analysis not available"
      [] OTHER                      -> "Tool not available"

\* The entry _execute_tools stores under f"{tool_name}_{action}".
ToolResult(step, outcome) ==
    LET entry(success, error) ==
            [key |-> << step.tool, step.action >>, tool |-> step.tool,
             action |-> step.action, success |-> success, error |-> error]
    IN  CASE outcome = "no_tool"   -> entry(FALSE, ToolNotAvailableError(step.tool))
          [] outcome = "no_method" -> entry(FALSE, MethodNotFoundError(step.action))
          [] OTHER ->
               LET ret == CallCollaborator(step, outcome)
               IN  IF ret.kind = "raise" THEN entry(FALSE, ret.error) ELSE entry(TRUE, None)

\* tool_results[key] = entry: a dict keeps the place of a key it already has.
DictPut(dict, entry) ==
    IF \E k \in DOMAIN dict : dict[k].key = entry.key
    THEN [k \in DOMAIN dict |-> IF dict[k].key = entry.key THEN entry ELSE dict[k]]
    ELSE Append(dict, entry)

\* any() in the place of all().
AnySucceeded(dict) == \E k \in DOMAIN dict : dict[k].success

\* all(result.get('success', False) for result in tool_results.values())
AllSucceeded(dict) == \A k \in DOMAIN dict : dict[k].success

\* sum(1 for result in tool_results.values() if result.get('success', False))
SuccessCount(dict) == Cardinality({ k \in DOMAIN dict : dict[k].success })

Summary(form, primary_intent, success_count, total_count) ==
    [form |-> form, primary_intent |-> primary_intent,
     success_count |-> success_count, total_count |-> total_count]

\* A summary that reports success as soon as one tool succeeded.
SummaryOfAnySuccess(primary_intent, dict) ==
    IF SuccessCount(dict) > 0 \/ Len(dict) = 0
    THEN Summary("Successfully completed", primary_intent, SuccessCount(dict), Len(dict))
    ELSE Summary("Partially completed", primary_intent, SuccessCount(dict), Len(dict))

\* "Successfully completed {primary_intent} request using {total_count} tools."
\* or "Partially completed {primary_intent} request:
\* {success_count}/{total_count} tools succeeded."
_generate_summary(primary_intent, dict) ==
    IF SuccessCount(dict) = Len(dict)
    THEN Summary("Successfully completed", primary_intent, SuccessCount(dict), Len(dict))
    ELSE Summary("Partially completed", primary_intent, SuccessCount(dict), Len(dict))

\* The remediation hint for a failed result of a tool.
FailureHint(tool) ==
    CASE tool = "packmol" -> << "Install PACKMOL: conda install -c conda-forge packmol" >>
      [] tool = "viamd"   -> << "Install VIAMD for visual validation" >>
      [] OTHER            -> << >>

\* for result in tool_results.values(): if not result.get('success', False)
RECURSIVE FailureHints(_, _)
FailureHints(dict, k) ==
    IF k > Len(dict) THEN << >>
    ELSE (IF dict[k].success THEN << >> ELSE FailureHint(dict[k].tool))
         \o FailureHints(dict, k + 1)

\* The general recommendations of an intent.
IntentHints(primary_intent) ==
    IF primary_intent = "gas_substitution"
    THEN << "Consider visual validation after substitution",
            "Run trajectory analysis on substituted structure" >>
    ELSE << >>

_generate_recommendations(primary_intent, dict) ==
    FailureHints(dict, 1) \o IntentHints(primary_intent)

\* The suggestions of an intent, given only when every tool succeeded.
SuggestNextStepsOnSuccess(primary_intent, dict) ==
    IF ~AllSucceeded(dict) THEN << >>
    ELSE CASE primary_intent = "gas_substitution" ->
                  << "Run visual validation on substituted structure",
                     "Perform trajectory analysis",
                     "Create presentation with results" >>
           [] primary_intent = "analysis" ->
                  << "Create presentation from analysis results",
                     "Export data for further processing",
                     "Consider parameter sensitivity analysis" >>
           [] OTHER -> << >>

\* MDCrowAgent._suggest_next_steps(intent, tool_results)
_suggest_next_steps(primary_intent, dict) ==
    CASE primary_intent = "gas_substitution" ->
             << "Run visual validation on substituted structure",
                "Perform trajectory analysis",
                "Create presentation with results" >>
      [] primary_intent = "analysis" ->
             << "Create presentation from analysis results",
                "Export data for further processing",
                "Consider parameter sensitivity analysis" >>
      [] OTHER -> << >>

_synthesize_response(primary_intent, dict) ==
    [success         |-> AllSucceeded(dict),
     summary         |-> _generate_summary(primary_intent, dict),
     recommendations |-> _generate_recommendations(primary_intent, dict),
     next_steps      |-> _suggest_next_steps(primary_intent, dict)]

NoResponse ==
    [success |-> FALSE, summary |-> Summary(None, None, 0, 0), recommendations |-> << >>,
     next_steps |-> << >>]

HistoryEntry(type, call) == [type |-> type, call |-> call]

AgentProcessRequest ==
    /\ sys = "agent" /\ apc = "idle" /\ calls < MaxCalls
    /\ \E req \in ExecRequests :
         /\ request' = req
         /\ intent' = _analyze_intent(req.tokens)
         /\ tool_plan' = SortByPriority(
                Numbered(_plan_tool_usage(req.tokens, intent'.primary_intent)))
         /\ apc' = IF tool_plan' = << >> THEN "synth" ELSE "exec"
    /\ conversation_history' =
           Append(conversation_history, HistoryEntry("user_request", calls + 1))
    /\ calls' = calls + 1
    /\ UNCHANGED << sys, cursor, started, invoked, faulted, toolsLoaded, tool_results,
                    response, orchVars, restVars >>

\* for step in tool_plan: the try block is entered
AgentStepStart ==
    /\ sys \in {"agent", "tools"} /\ apc = "exec" /\ cursor < Len(tool_plan)
    /\ started' = Append(started, tool_plan[cursor + 1].id)
    /\ invoked' = IF AgentCallsCollaborator(tool_plan[cursor + 1])
                  THEN Append(invoked, tool_plan[cursor + 1].id) ELSE invoked
    /\ apc' = "call"
    /\ UNCHANGED << sys, request, calls, cursor, faulted, toolsLoaded, intent, tool_plan,
                    tool_results, response, conversation_history, orchVars, restVars >>

\* the step's entry is stored and the loop takes the next step
AgentStepFinish ==
    /\ sys \in {"agent", "tools"} /\ apc = "call"
    /\ \E outcome \in AgentOutcomes(tool_plan[cursor + 1]) :
         /\ tool_results' = DictPut(tool_results, ToolResult(tool_plan[cursor + 1], outcome))
         /\ faulted' = (faulted \/ outcome # "ok")
    /\ cursor' = cursor + 1
    /\ apc' = IF cursor + 1 = Len(tool_plan) THEN "synth" ELSE "exec"
    /\ UNCHANGED << sys, request, calls, started, invoked, toolsLoaded, intent, tool_plan,
                    response, conversation_history, orchVars, restVars >>

\* _execute_tools returns; response = self._generate_response(request)
AgentSynthesize ==
    /\ sys = "agent" /\ apc = "synth"
    /\ response' = _synthesize_response(intent.primary_intent, tool_results)
    /\ apc' = "respond"
    /\ UNCHANGED << sys, request, calls, cursor, started, invoked, faulted, toolsLoaded,
                    intent, tool_plan, tool_results, conversation_history, orchVars, restVars >>

\* the response is appended to the history and returned; the locals of the
\* call end with it
AgentRespond ==
    /\ sys = "agent" /\ apc = "respond"
    /\ conversation_history' =
           Append(conversation_history, HistoryEntry("agent_response", calls))
    /\ apc' = "idle"
    /\ request' = NoRequest
    /\ intent' = NoIntent
    /\ tool_plan' = << >>
    /\ tool_results' = << >>
    /\ response' = NoResponse
    /\ cursor' = 0
    /\ started' = << >>
    /\ invoked' = << >>
    /\ faulted' = FALSE
    /\ UNCHANGED << sys, calls, toolsLoaded, orchVars, restVars >>

\* clear_conversation
AgentClear ==
    /\ sys = "agent" /\ apc = "idle"
    /\ conversation_history' = << >>
    /\ UNCHANGED << sys, request, calls, cursor, started, invoked, faulted, toolsLoaded,
                    intent, tool_plan, tool_results, response, apc, orchVars, restVars >>

AgentNext ==
    \/ AgentProcessRequest
    \/ AgentStepStart
    \/ AgentStepFinish
    \/ AgentSynthesize
    \/ AgentRespond
    \/ AgentClear

-----------------------------------------------------------------------------
(* The two objects after construction, and their operations *)

Init ==
    /\ sys \in {"orch", "agent"}
    /\ request = NoRequest
    /\ calls = 0
    /\ cursor = 0
    /\ started = << >>
    /\ invoked = << >>
    /\ faulted = FALSE
    /\ command = NoCommand
    /\ results = NewResults
    /\ workflow_history = << >>
    /\ received = << >>
    /\ opc = "idle"
    /\ toolsLoaded \in (IF sys = "agent" THEN BOOLEAN ELSE {TRUE})
    /\ intent = NoIntent
    /\ tool_plan = << >>
    /\ tool_results = << >>
    /\ response = NoResponse
    /\ conversation_history = << >>
    /\ apc = "idle"
    /\ RestInit

Next == OrchNext \/ AgentNext

Spec == Init /\ [][Next]_vars

-----------------------------------------------------------------------------
(* Parsing and planning alone: parse_natural_language_request and          *)
(* _plan_tool_usage applied to one request                                 *)

InitPlan ==
    /\ sys = "plan"
    /\ \/ request \in PlanRequests
       \/ request \in TextRequests
       \/ request \in ExecRequests
    /\ calls = 0
    /\ cursor = 0
    /\ started = << >>
    /\ invoked = << >>
    /\ faulted = FALSE
    /\ command = NoCommand
    /\ results = NewResults
    /\ workflow_history = << >>
    /\ received = << >>
    /\ opc = "idle"
    /\ toolsLoaded = TRUE
    /\ intent = NoIntent
    /\ tool_plan = << >>
    /\ tool_results = << >>
    /\ response = NoResponse
    /\ conversation_history = << >>
    /\ apc = "idle"
    /\ RestInit

PlanParse ==
    /\ sys = "plan" /\ opc = "idle" /\ apc = "idle"
    /\ command' = parse_natural_language_request(request)
    /\ opc' = "parsed"
    /\ UNCHANGED << sys, request, calls, cursor, started, invoked, faulted, results,
                    workflow_history, received, toolsLoaded, agentVars, restVars >>

PlanTools ==
    /\ sys = "plan" /\ opc = "idle" /\ apc = "idle"
    /\ intent' = _analyze_intent(request.tokens)
    /\ tool_plan' = Numbered(_plan_tool_usage(request.tokens, intent'.primary_intent))
    /\ apc' = "planned"
    /\ UNCHANGED << sys, request, calls, cursor, started, invoked, faulted, toolsLoaded,
                    tool_results, response, conversation_history, orchVars, restVars >>

NextPlan == PlanParse \/ PlanTools

SpecPlan == InitPlan /\ [][NextPlan]_vars

-----------------------------------------------------------------------------
(* MDCrowAgent._execute_tools called with a tool plan *)

BogusStep == ToolStep("viamd", "no_such_method", {}, 1)

WithPriority(step, has, priority) ==
    [step EXCEPT !.has_priority = has, !.priority = IF has THEN priority ELSE 0]

DirectSteps ==
    { WithPriority(s, h, p) : s \in {AnalyzeStep(1), ValidateStep(1), BogusStep},
                              h \in BOOLEAN, p \in 1..2 }

InitTools ==
    /\ sys = "tools"
    /\ request = NoRequest
    /\ calls = 0
    /\ cursor = 0
    /\ started = << >>
    /\ invoked = << >>
    /\ faulted = FALSE
    /\ command = NoCommand
    /\ results = NewResults
    /\ workflow_history = << >>
    /\ received = << >>
    /\ opc = "idle"
    /\ toolsLoaded \in BOOLEAN
    /\ intent = NoIntent
    /\ tool_plan \in { Numbered(p) : p \in SeqsUpTo(DirectSteps, MaxPlan) }
    /\ tool_results = << >>
    /\ response = NoResponse
    /\ conversation_history = << >>
    /\ apc = "entry"
    /\ RestInit

\* tool_plan.sort(key=lambda x: x.get('priority', 0))
ToolsEnter ==
    /\ sys = "tools" /\ apc = "entry"
    /\ tool_plan' = SortByPriority(tool_plan)
    /\ apc' = IF tool_plan = << >> THEN "synth" ELSE "exec"
    /\ UNCHANGED << sys, request, calls, cursor, started, invoked, faulted, toolsLoaded,
                    intent, tool_results, response, conversation_history, orchVars, restVars >>

\* return tool_results
ToolsReturn ==
    /\ sys = "tools" /\ apc = "synth"
    /\ apc' = "done"
    /\ UNCHANGED << sys, request, calls, cursor, started, invoked, faulted, toolsLoaded,
                    intent, tool_plan, tool_results, response, conversation_history, orchVars, restVars >>

NextTools == ToolsEnter \/ AgentStepStart \/ AgentStepFinish \/ ToolsReturn

SpecTools == InitTools /\ [][NextTools]_vars

-----------------------------------------------------------------------------
(* The step executors of both objects: process_request of either object,   *)
(* or _execute_tools called with a tool plan                               *)

InitSteps == Init \/ InitTools

NextSteps == Next \/ NextTools

SpecSteps == InitSteps /\ [][NextSteps]_vars

-----------------------------------------------------------------------------
(* Properties *)

Range(seq) == { seq[k] : k \in DOMAIN seq }

IsPrefix(a, b) == Len(a) <= Len(b) /\ SubSeq(b, 1, Len(a)) = a

\* The entry of tool_results a step of the plan wrote.
ResultsOf(step) ==
    { k \in DOMAIN tool_results : tool_results[k].key = << step.tool, step.action >> }

\* C1: execute_workflow runs the steps in list order and stops at the first
\* failed one: the step results are the plan's prefix up to and including
\* the failed step, only the last recorded result can be a failure, no step
\* is started after it, and the workflow's success flag is then false.
C1_HaltAtFirstFailure ==
    sys = "orch" =>
        LET n == Len(results.steps)
        IN  /\ n <= Len(Steps)
            /\ \A j \in 1..n : results.steps[j].step = Steps[j]
            /\ \A j \in 1..n : ~results.steps[j].success => j = n
            /\ started = [j \in 1..Len(started) |-> j]
            /\ Len(started) = IF opc = "step" THEN n + 1 ELSE n
            /\ (n > 0 /\ ~results.steps[n].success) => (opc = "store" /\ ~results.success)

\* A three-step plan whose second step failed: two step results, the third
\* step never started.
C1_Witness ==
    /\ sys = "orch" /\ opc = "store"
    /\ Len(Steps) = 3
    /\ Len(results.steps) = 2
    /\ results.steps[1].success /\ ~results.steps[2].success
    /\ started = << 1, 2 >>
    /\ ~results.success /\ results.error = None

\* C2: in _execute_tools, once a collaborator invocation has raised and its
\* step is recorded as failed, the remaining plan is halted: no later step
\* is started or recorded.
C2_HaltsAfterRaise ==
    sys = "agent" =>
        \A j \in 1..cursor :
            ( /\ tool_plan[j].id \in Range(invoked)
              /\ \E k \in ResultsOf(tool_plan[j]) : ~tool_results[k].success )
            => (Len(started) <= j /\ Len(tool_results) <= j)

\* C3: when the packing collaborator cannot do its work, the substitute step
\* is recorded with success=false, the workflow fails and no later step runs.
C3_PackingFailureFailsStep ==
    sys = "orch" =>
        \A j \in DOMAIN results.steps :
            LET r == results.steps[j]
            IN  (r.step.action = "substitute" /\ r.output.kind = "value" /\ ~r.output.ok)
                => (~r.success /\ ~results.success /\ Len(started) = j)

\* C4: the success flag of a returned result is true only if every planned
\* step was executed and every recorded step result succeeded, and it is
\* false whenever a recorded step result failed.
C4_SuccessOnlyIfAllSucceeded ==
    /\ (sys = "orch" /\ opc = "store") =>
          /\ results.success =>
                /\ Len(results.steps) = Len(Steps)
                /\ \A j \in DOMAIN results.steps : results.steps[j].success
          /\ (\E j \in DOMAIN results.steps : ~results.steps[j].success) => ~results.success
    /\ (sys = "agent" /\ apc = "respond") =>
          /\ response.success =>
                /\ cursor = Len(tool_plan)
                /\ \A j \in DOMAIN tool_plan : ResultsOf(tool_plan[j]) # {}
                /\ \A k \in DOMAIN tool_results : tool_results[k].success
          /\ (\E k \in DOMAIN tool_results : ~tool_results[k].success) => ~response.success

\* A three-step workflow returned as a success.
C4_Witness ==
    /\ sys = "orch" /\ opc = "store"
    /\ results.success
    /\ Len(results.steps) = 3

\* The clauses of a request: the token runs between its conjunction tokens.
RECURSIVE ClausesFrom(_, _, _)
ClausesFrom(tokens, i, cur) ==
    IF i > Len(tokens) THEN << cur >>
    ELSE IF tokens[i] \in {"then", "Then", "and", ","}
         THEN << cur >> \o ClausesFrom(tokens, i + 1, << >>)
         ELSE ClausesFrom(tokens, i + 1, cur \o << tokens[i] >>)

Clauses == ClausesFrom(request.tokens, 1, << >>)

\* C5: the plan of the planner has at least one step for every request; when
\* nothing can be identified it holds a step with the "unknown" action.
C5_PlanNeverEmpty ==
    /\ (sys = "plan" /\ opc = "parsed") =>
          /\ Len(command.workflow_steps) >= 1
          /\ command.primary_action = None =>
                \E j \in DOMAIN command.workflow_steps :
                    command.workflow_steps[j].action = "unknown"
    /\ (sys = "plan" /\ apc = "planned") => Len(tool_plan) >= 1

\* C6: process_request returns a result whatever fails, and whenever a
\* collaborator could not do its work (missing input file, unsupported
\* format, unavailable tool, raised exception) the result's success flag is
\* false.
C6_FailureGivesFalse ==
    /\ (sys = "orch" /\ opc = "store" /\ faulted) => ~results.success
    /\ (sys = "agent" /\ apc = "respond" /\ faulted) => ~response.success

\* C7: every step result with success=false carries a cause in its error
\* field, also when the collaborator gave back no value without raising.
C7_FailedStepHasCause ==
    sys = "orch" =>
        \A j \in DOMAIN results.steps :
            ~results.steps[j].success => results.steps[j].error # None

\* C8: the histories are append-only.  The orchestrator's history changes
\* only when a call ends, by exactly one entry for that call, failed or not;
\* the agent's history gets the call's user_request when the call begins and
\* the same call's agent_response right behind it when the call ends; the
\* entries already there stay as they are, and a history becomes empty only
\* by clear_conversation.
C8_Step ==
    /\ workflow_history' # workflow_history =>
          /\ opc = "store" /\ opc' = "idle"
          /\ IsPrefix(workflow_history, workflow_history')
          /\ Len(workflow_history') = Len(workflow_history) + 1
          /\ workflow_history'[Len(workflow_history')].call = calls
    /\ (opc = "store" /\ opc' = "idle") =>
          Len(workflow_history') = Len(workflow_history) + 1
    /\ conversation_history' # conversation_history =>
          \/ /\ apc = "idle" /\ apc' # "idle"
             /\ conversation_history' =
                    Append(conversation_history, HistoryEntry("user_request", calls'))
          \/ /\ apc = "respond" /\ apc' = "idle"
             /\ conversation_history' =
                    Append(conversation_history, HistoryEntry("agent_response", calls))
          \/ /\ apc = "idle" /\ apc' = "idle"
             /\ conversation_history' = << >>
    /\ (sys = "agent" /\ apc = "idle" /\ apc' # "idle") =>
          Len(conversation_history') = Len(conversation_history) + 1
    /\ (sys = "agent" /\ apc = "respond" /\ apc' = "idle") =>
          /\ Len(conversation_history') = Len(conversation_history) + 1
          /\ conversation_history[Len(conversation_history)] =
                 HistoryEntry("user_request", calls)

C8_HistoryAppendOnly == [][C8_Step]_vars

\* Two calls, the first a failure: one entry each, in call order.
C8_Witness ==
    /\ sys = "orch" /\ opc = "idle"
    /\ Len(workflow_history) = 2
    /\ ~workflow_history[1].success /\ workflow_history[1].call = 1
    /\ workflow_history[2].call = 2

\* The step of the plan with the given position in the list handed in.
StepWithId(id) == CHOOSE s \in Range(tool_plan) : s.id = id

\* C9: _execute_tools takes the steps one at a time in nondecreasing
\* priority, steps of equal priority in their order in the list, and starts
\* no step before the one before it has finished.
C9_PriorityOrder ==
    (sys = "tools" /\ apc # "entry") =>
        /\ \A a, b \in DOMAIN started :
              a < b =>
                 \/ SortKey(StepWithId(started[a])) < SortKey(StepWithId(started[b]))
                 \/ /\ SortKey(StepWithId(started[a])) = SortKey(StepWithId(started[b]))
                    /\ started[a] < started[b]
        /\ Len(started) = IF apc = "call" THEN cursor + 1 ELSE cursor
        /\ apc \in {"synth", "done"} =>
              /\ Len(started) = Len(tool_plan)
              /\ Range(started) = 1..Len(tool_plan)

\* Three steps of priorities 2, 1, 2: the second ran first, the two of equal
\* priority in list order.
C9_Witness ==
    /\ sys = "tools" /\ apc = "done"
    /\ started = << 2, 1, 3 >>
    /\ SortKey(StepWithId(1)) = SortKey(StepWithId(3))
    /\ SortKey(StepWithId(2)) < SortKey(StepWithId(1))

\* C10: a request of N clauses joined by "then", "and" or a comma gives
\* exactly N steps, the i-th step describing the i-th clause.
C10_OneStepPerClause ==
    ( /\ sys = "plan" /\ opc = "parsed"
      /\ \A i \in DOMAIN Clauses : Clauses[i] # << >> )
    => /\ Len(command.workflow_steps) = Len(Clauses)
       /\ \A i \in DOMAIN Clauses : command.workflow_steps[i].description = Clauses[i]

\* Whether no token of the request contains a keyword of the tables.
NoKeyword == request.tokens # << >> /\ \A i \in DOMAIN request.tokens : Sub(request.tokens[i]) = {}

\* C11: for a request with no recognized keyword the intent classifier gives
\* the primary intent general, and the planner gives a plan of exactly one
\* step whose action is unknown.
C11_NoKeywordGivesUnknown ==
    (sys = "plan" /\ NoKeyword) =>
        /\ apc = "planned" =>
              /\ intent.primary_intent = "general"
              /\ Len(tool_plan) = 1
              /\ tool_plan[1].action = "unknown"
        /\ opc = "parsed" =>
              /\ Len(command.workflow_steps) = 1
              /\ command.workflow_steps[1].action = "unknown"

\* The keywords of the primary-action table that occur in the request.
ActionKeywords ==
    { kw \in UNION { patterns[k].kws : k \in DOMAIN patterns } : HasKeyword(request.tokens, kw) }

\* The action the table maps a keyword to.
ActionOfKeyword(kw) == patterns[CHOOSE k \in DOMAIN patterns : kw \in patterns[k].kws].action

\* C12: a request of one clause with exactly one recognized action keyword
\* gives a plan of length 1 whose step action is the executable action that
\* keyword maps to.
C12_OneKeywordOneStep ==
    ( /\ sys = "plan" /\ opc = "parsed"
      /\ \A i \in DOMAIN request.tokens : ~IsConjunction(request.tokens[i])
      /\ Cardinality(ActionKeywords) = 1 )
    => /\ Len(command.workflow_steps) = 1
       /\ command.workflow_steps[1].action \in KnownActions
       /\ \A kw \in ActionKeywords : command.workflow_steps[1].action = ActionOfKeyword(kw)

\* The action or tool an error text names.
NamedIn(error) ==
    CASE error = "Unknown action: None"                 -> None
      [] error = "Unknown action: remove"               -> "remove"
      [] error = "Unknown action: add"                  -> "add"
      [] error = "Unknown action: workflow"             -> "workflow"
      [] error = "Unknown action: unknown"              -> "unknown"
      [] error = "Method no_such_method not found"      -> "no_such_method"
      [] error = "Tool packmol not available"           -> "packmol"
      [] error = "Tool viamd not available"             -> "viamd"
      [] error = "Tool existing_analysis not available" -> "existing_analysis"
      [] OTHER                                          -> ""

\* The orchestrator's part: a step with an action _execute_step does not
\* dispatch is recorded as failed with the action in the error, and no
\* collaborator operation was entered for it.
UnknownStepFailsOrch ==
    sys = "orch" =>
        /\ \A j \in DOMAIN results.steps :
              LET r == results.steps[j]
              IN  r.step.action \notin KnownActions =>
                     /\ ~r.success
                     /\ r.output = NoneValue
                     /\ NamedIn(r.error) = r.step.action
        /\ \A a \in Range(invoked) : a \in KnownActions

\* The agent's part, for the steps the loop has finished.
UnknownStepFailsAgent(whenToolKnown) ==
    sys \in {"agent", "tools"} =>
        \A j \in 1..cursor :
            LET step == tool_plan[j]
            IN  step.action \notin Methods(step.tool) =>
                   /\ step.id \notin Range(invoked)
                   /\ \A k \in ResultsOf(step) :
                         /\ ~tool_results[k].success
                         /\ (whenToolKnown => toolsLoaded)
                               => NamedIn(tool_results[k].error) = step.action

\* C13 (as stated): a step whose action is not a known one gives a failed
\* step result at once, with an error naming the action, and no collaborator
\* operation is invoked for it.
C13_UnknownActionFails == UnknownStepFailsOrch /\ UnknownStepFailsAgent(FALSE)

\* C13 (amended): the same, the agent's error naming the action when the
\* step's tool is registered; with no tool registered the error names the
\* tool.
C13_UnknownActionFailsKnownTool == UnknownStepFailsOrch /\ UnknownStepFailsAgent(TRUE)

\* A workflow request ends in one failed step naming the action workflow;
\* no collaborator was entered.
C13_Witness ==
    /\ sys = "orch" /\ opc = "store"
    /\ Len(results.steps) = 1
    /\ results.steps[1].step.action = "workflow"
    /\ results.steps[1].error = "Unknown action: workflow"
    /\ ~results.steps[1].success
    /\ invoked = << >>

\* C14: the primary intent is the intent with the highest score, the one
\* declared first among those with the highest score, and general when no
\* intent scored.
C14_PrimaryIntentIsFirstMax ==
    (sys = "plan" /\ apc = "planned") =>
        LET sc == intent.intent_scores
        IN  IF \A k \in DOMAIN sc : sc[k] = 0
            THEN intent.primary_intent = "general"
            ELSE \E k \in DOMAIN sc :
                    /\ intent.primary_intent = intents[k].name
                    /\ sc[k] > 0
                    /\ \A m \in DOMAIN sc : sc[m] <= sc[k]
                    /\ \A m \in DOMAIN sc : m < k => sc[m] < sc[k]

\* Analysis and presentation both score 1 and the workflow intent, declared
\* last, scores 0: analysis, declared before presentation, is the primary
\* intent although the text names the presentation first.
C14_Witness ==
    /\ sys = "plan" /\ apc = "planned"
    /\ request.tokens = << "presentation", "study" >>
    /\ intent.intent_scores[2] = 1 /\ intent.intent_scores[4] = 1
    /\ intent.primary_intent = "analysis"

\* The step keywords of a workflow request with the operation each stands
\* for, in the fixed order.
WorkflowOrder ==
    << [kw |-> "substitute",   action |-> "gas_substitution_workflow"],
       [kw |-> "validate",     action |-> "validate_structure"],
       [kw |-> "analyze",      action |-> "analyze_trajectory"],
       [kw |-> "presentation", action |-> "create_presentation"] >>

KeywordOccurs(e) == HasKeyword(request.tokens, e.kw)

\* C15: for the primary intent workflow the plan has exactly one step for
\* each of substitute, validate, analyze, presentation that occurs in the
\* request, in that fixed order whatever their order in the text.
C15_WorkflowFixedOrder ==
    (sys = "plan" /\ apc = "planned" /\ intent.primary_intent = "workflow") =>
        LET expected == SelectSeq(WorkflowOrder, KeywordOccurs)
        IN  /\ Len(tool_plan) = Len(expected)
            /\ \A k \in DOMAIN expected : tool_plan[k].action = expected[k].action

\* The text names the presentation before the analysis; the plan analyzes
\* and then presents.
C15_Witness ==
    /\ sys = "plan" /\ apc = "planned"
    /\ request.tokens = << "complete", "workflow", "then", "presentation", "then", "analyze" >>
    /\ intent.primary_intent = "workflow"
    /\ Len(tool_plan) = 2
    /\ tool_plan[1].action = "analyze_trajectory"
    /\ tool_plan[2].action = "create_presentation"

\* C16: resolving the substitution parameters of "remove O2", which has no
\* add clause and no count, gives remove-species O2, add-species O and
\* count 100.
C16_RemoveO2Defaults ==
    (sys = "plan" /\ apc = "planned" /\ request.tokens = << "remove", "O2" >>) =>
        /\ Len(tool_plan) = 1
        /\ tool_plan[1].action = "gas_substitution_workflow"
        /\ tool_plan[1].args.remove_species = "O2"
        /\ tool_plan[1].args.add_species = "O"
        /\ tool_plan[1].args.count = 100

AnalyzeThenPresent ==
    << "analyze", "traj.xyz", "then", "create", "a", "presentation", "titled", "Results" >>

\* C17: for "analyze traj.xyz then create a presentation titled Results" the
\* plan has exactly 2 steps in the order analysis, presentation, and the
\* presentation step is run with the title "Results".
C17_AnalyzeThenPresentTitled ==
    (sys = "plan" /\ request.tokens = AnalyzeThenPresent) =>
        /\ opc = "parsed" =>
              /\ Len(command.workflow_steps) = 2
              /\ command.workflow_steps[1].action = "analyze"
              /\ command.workflow_steps[2].action = "presentation"
              /\ PresentationTitle(command.parameters) = << "Results" >>
        /\ apc = "planned" =>
              /\ Len(tool_plan) = 2
              /\ tool_plan[1].action = "analyze_trajectory"
              /\ tool_plan[2].action = "create_presentation"
              /\ tool_plan[2].args.title = << "Results" >>

SubstituteInSample == << "substitute", "O2", "with", "O", "in", "sample.xyz" >>

\* What the agent makes of "substitute O2 with O in sample.xyz".
SubstituteInSampleAgent ==
    (sys = "plan" /\ apc = "planned" /\ request.tokens = SubstituteInSample) =>
        /\ intent.files = << "sample.xyz" >>
        /\ intent.primary_intent = "gas_substitution"
        /\ Len(tool_plan) = 1
        /\ tool_plan[1].action = "gas_substitution_workflow"
        /\ tool_plan[1].args.file = "sample.xyz"

\* What the orchestrator makes of it, with the file entities it extracts.
SubstituteInSampleOrch(files) ==
    (sys = "plan" /\ opc = "parsed" /\ request.tokens = SubstituteInSample) =>
        /\ command.files = files
        /\ command.primary_action = "substitute"
        /\ Len(command.workflow_steps) = 1
        /\ command.workflow_steps[1].action = "substitute"

C19_SummaryAgreesWithSuccess ==
    (sys = "agent" /\ apc = "respond") =>
        LET succeeded == { k \in DOMAIN tool_results : tool_results[k].success }
            s == response.summary
        IN  /\ s.form \in {"Successfully completed", "Partially completed"}
            /\ s.form = "Successfully completed" <=> succeeded = DOMAIN tool_results
            /\ s.form = "Successfully completed" <=> response.success
            /\ s.total_count = Len(tool_results)
            /\ s.success_count = Cardinality(succeeded)
            /\ s.primary_intent = intent.primary_intent

\* Two tools ran, one of them succeeded: the partial form with 1/2, and the
\* response is no success.
C19_Witness ==
    /\ sys = "agent" /\ apc = "respond"
    /\ Len(tool_results) = 2
    /\ response.summary.form = "Partially completed"
    /\ response.summary.success_count = 1
    /\ response.summary.total_count = 2
    /\ ~response.success

\* The failed results of the call, in the order of the dictionary.
FailedResults == SelectSeq(tool_results, LAMBDA r : ~r.success)

\* C20: the recommendations hold one remediation hint for each failed step
\* result, chosen by the collaborator that failed (the install hint of the
\* packing tool for a failed packing step), followed by the hints of the
\* intent; a run without a failed step gets no remediation hint.
C20_HintPerFailedStep ==
    (sys = "agent" /\ apc = "respond") =>
        LET hints == response.recommendations
            n == Len(FailedResults)
        IN  /\ Len(hints) = n + Len(IntentHints(intent.primary_intent))
            /\ SubSeq(hints, n + 1, Len(hints)) = IntentHints(intent.primary_intent)
            /\ \A k \in 1..n :
                  /\ k <= Len(hints)
                  /\ FailedResults[k].tool = "packmol" =>
                        hints[k] = "Install PACKMOL: conda install -c conda-forge packmol"
                  /\ FailedResults[k].tool = "viamd" =>
                        hints[k] = "Install VIAMD for visual validation"

\* The step results a call with the same plan could have had: every choice
\* of which steps succeeded, and no step run at all.
ResultVariants ==
    { [k \in DOMAIN tool_results |-> [tool_results[k] EXCEPT !.success = f[k]]] :
        f \in [DOMAIN tool_results -> BOOLEAN] } \cup { << >> }

\* C21: the next-step suggestions depend on the primary intent only: with
\* the same primary intent _suggest_next_steps gives the list of the response
\* whatever the step results are (all succeeded, some failed, none ran).
C21_NextStepsOfIntentOnly ==
    (sys = "agent" /\ apc = "respond") =>
        \A d \in ResultVariants :
            response.next_steps = _suggest_next_steps(intent.primary_intent, d)

\* An analysis request whose tool failed still gets the three suggestions
\* of the analysis intent.
C21_Witness ==
    /\ sys = "agent" /\ apc = "respond"
    /\ intent.primary_intent = "analysis"
    /\ Len(tool_results) = 1 /\ ~tool_results[1].success
    /\ Len(response.next_steps) = 3

-----------------------------------------------------------------------------
(* Entity extraction: _extract_entities of either object called with a     *)
(* text, any number of times                                               *)

MaxExtract == 3         \* calls of _extract_entities in one behaviour

\* The variables of the request handlers and their state at rest.
coreVars == << request, calls, cursor, started, invoked, faulted,
               command, results, workflow_history, opc, received,
               intent, tool_plan, tool_results, response, conversation_history, apc >>

CoreInit ==
    /\ request = NoRequest
    /\ calls = 0
    /\ cursor = 0
    /\ started = << >>
    /\ invoked = << >>
    /\ faulted = FALSE
    /\ command = NoCommand
    /\ results = NewResults
    /\ workflow_history = << >>
    /\ received = << >>
    /\ opc = "idle"
    /\ intent = NoIntent
    /\ tool_plan = << >>
    /\ tool_results = << >>
    /\ response = NoResponse
    /\ conversation_history = << >>
    /\ apc = "idle"

\* re.findall of molecule pattern n on one token, re.IGNORECASE.  Pattern 1
\* is \b(O2|N2|CO2|H2O|CH4|C2H6|NH3)\b, pattern 2 is \b([A-Z][a-z]?\d*)\b:
\* a word of one or two letters and digits, as "in" is and as the "a" before
\* the dot of "a.xyz" is.  Patterns 3 and 4 of the orchestrator need a number
\* followed by an element and "radical(s)" or "atom(s)".
MoleculePattern(n, w) ==
    CASE n = 1 /\ w \in {"O2", "N2"}            -> << w >>
      [] n = 2 /\ w \in {"O2", "N2", "O", "in"} -> << w >>
      [] n = 2 /\ w = "a.xyz"                   -> << "a" >>
      [] OTHER                                  -> << >>

\* re.findall of molecule pattern n on the text, from token i on.
RECURSIVE MoleculesFrom(_, _, _)
MoleculesFrom(n, tokens, i) ==
    IF i > Len(tokens) THEN << >>
    ELSE MoleculePattern(n, tokens[i]) \o MoleculesFrom(n, tokens, i + 1)

\* re.findall(r'(\d+(?:\.\d+)?)', ...) on one token: the numbers as strings.
NumberStrings(w) ==
    CASE w \in {"O2", "N2"} -> << "2" >>
      [] w = "5"            -> << "5" >>
      [] OTHER              -> << >>

RECURSIVE NumberStringsFrom(_, _)
NumberStringsFrom(tokens, i) ==
    IF i > Len(tokens) THEN << >>
    ELSE NumberStrings(tokens[i]) \o NumberStringsFrom(tokens, i + 1)

\* The keys of tools['tool_descriptions'], in insertion order; self.tools is
\* empty when the imports of _initialize_tools failed.
tool_descriptions(loaded) ==
    IF loaded THEN << "packmol", "viamd", "existing_analysis", "molecular_tools" >>
    ELSE << >>

\* tool_name.lower() in request.lower()
Mentions(tokens, tool_name) == \E i \in DOMAIN tokens : tokens[i] = tool_name

\* MDCrowAgent._extract_entities
AgentEntities(tokens, loaded) ==
    [files     |-> FindAll(1, tokens, 1) \o FindAll(2, tokens, 1),
     molecules |-> MoleculesFrom(1, tokens, 1) \o MoleculesFrom(2, tokens, 1),
     numbers   |-> NumbersFrom(tokens, 1),
     tools     |-> SelectSeq(tool_descriptions(loaded), LAMBDA t : Mentions(tokens, t))]

\* ProbaahAIOrchestrator._extract_entities.  No text here holds "density" or
\* "count", which number patterns 2 and 3 need; nothing fills properties.
OrchEntities(tokens) ==
    [files      |-> FindAll(1, tokens, 1) \o FindAll(2, tokens, 1) \o FindAll(3, tokens, 1),
     molecules  |-> MoleculesFrom(1, tokens, 1) \o MoleculesFrom(2, tokens, 1)
                    \o MoleculesFrom(3, tokens, 1) \o MoleculesFrom(4, tokens, 1),
     numbers    |-> NumberStringsFrom(tokens, 1),
     properties |-> << >>]

\* An extractor that keeps the files of the call before.
ExtractKeepingFiles(earlier, who, tokens, loaded) ==
    LET bag == IF who = "agent" THEN AgentEntities(tokens, loaded) ELSE OrchEntities(tokens)
    IN  IF earlier = << >> THEN bag
        ELSE [bag EXCEPT !.files = earlier[Len(earlier)].bag.files \o @]

\* The bag a call of _extract_entities returns on an object whose earlier
\* calls returned `earlier`: the dictionary is built anew from the text (and,
\* in the agent, the tool registry); nothing of an earlier call is read.
_extract_entities(earlier, who, tokens, loaded) ==
    IF who = "agent" THEN AgentEntities(tokens, loaded) ELSE OrchEntities(tokens)

EntityTexts ==
    { << "substitute", "O2", "with", "O", "in", "sample.xyz" >>,
      << "O", "in", "N2" >>,
      << "a.xyz", "b_c.xyz" >>,
      << "b_c.xyz", "a.xyz" >>,
      << "analyze", "5", "O2" >>,
      << "viamd", "packmol" >>,
      << "hello" >> }

InitEntities ==
    /\ sys \in {"orch.entities", "agent.entities"}
    /\ toolsLoaded \in (IF sys = "agent.entities" THEN BOOLEAN ELSE {TRUE})
    /\ CoreInit
    /\ RestInit

OrchExtract ==
    /\ sys = "orch.entities" /\ Len(extracted) < MaxExtract
    /\ \E t \in EntityTexts :
         extracted' = Append(extracted,
             [text |-> t, bag |-> _extract_entities(extracted, "orch", t, toolsLoaded)])
    /\ UNCHANGED << sys, toolsLoaded, coreVars, gasVars, packmolVars, threadVars >>

AgentExtract ==
    /\ sys = "agent.entities" /\ Len(extracted) < MaxExtract
    /\ \E t \in EntityTexts :
         extracted' = Append(extracted,
             [text |-> t, bag |-> _extract_entities(extracted, "agent", t, toolsLoaded)])
    /\ UNCHANGED << sys, toolsLoaded, coreVars, gasVars, packmolVars, threadVars >>

NextEntities == OrchExtract \/ AgentExtract

SpecEntities == InitEntities /\ [][NextEntities]_vars

RECURSIVE FilesByPosition(_, _, _)
FilesByPosition(n, tokens, i) ==
    IF i > Len(tokens) THEN << >>
    ELSE FilePattern(1, tokens[i])
         \o (IF n >= 2 THEN FilePattern(2, tokens[i]) ELSE << >>)
         \o (IF n >= 3 THEN FilePattern(3, tokens[i]) ELSE << >>)
         \o FilesByPosition(n, tokens, i + 1)

RECURSIVE MoleculesByPosition(_, _)
MoleculesByPosition(tokens, i) ==
    IF i > Len(tokens) THEN << >>
    ELSE MoleculePattern(1, tokens[i]) \o MoleculePattern(2, tokens[i])
         \o MoleculesByPosition(tokens, i + 1)

\* The tool names the text mentions, in the order of the text.
ToolsByPosition(tokens, loaded) ==
    SelectSeq(tokens, LAMBDA w : \E k \in DOMAIN tool_descriptions(loaded) :
                                     tool_descriptions(loaded)[k] = w)

\* C23: within each category of the entity bag the entities stand in the
\* order of their position in the text, so that the first element of a
\* category is the match that occurs first in the text.
C23_EntitiesInTextOrder ==
    \A i \in DOMAIN extracted :
        LET t   == extracted[i].text
            bag == extracted[i].bag
        IN  /\ bag.molecules = MoleculesByPosition(t, 1)
            /\ sys = "agent.entities" =>
                  /\ bag.files = FilesByPosition(2, t, 1)
                  /\ bag.tools = ToolsByPosition(t, toolsLoaded)
            /\ sys = "orch.entities" => bag.files = FilesByPosition(3, t, 1)

-----------------------------------------------------------------------------
(* plugins/ai/workflows/gas_substitution.py: GasSubstitutionWorkflow.       *)
(* execute_complete_workflow, one action per step of the workflow           *)

\* Progress.update(task, advance=n) adds n to the completed value of the
\* task; a task starts with completed 0.
Advance(values, n) ==
    Append(values, (IF values = << >> THEN 0 ELSE values[Len(values)]) + n)

\* Progress.update(task, completed=n) sets the completed value.
SetCompleted(values, n) == Append(values, n)

\* The dictionary a step leaves in workflow_results['steps']: whether it has
\* a 'success' key and its value, and validation_result['approved'] of a
\* validation result.
StepDict(step, has_success, success, approved, error) ==
    [step |-> step, has_success |-> has_success, success |-> success,
     approved |-> approved, error |-> error]

\* What a step executor did: the dictionary it returned, the completed
\* values its progress updates gave, and whether the collaborator was called.
Executed(result, reported, called) ==
    [result |-> result, reported |-> reported, called |-> called]

GasSubstitutionOutcomes == {"import_fail", "mkdtemp_fail"} \cup PackmolOutcomes
GasValidationOutcomes == {"import_fail"} \cup ValidateOutcomes
GasAnalysisOutcomes == {"import_fail", "load_fail", "raise", "ok"}
GasPresentationOutcomes == {"import_fail"} \cup PresentOutcomes

\* _execute_gas_substitution: advance 25, advance 25, the packing call,
\* advance 50; an exception gives the failure dictionary.
_execute_gas_substitution(outcome) ==
    CASE outcome = "import_fail" ->
             Executed(StepDict("substitution", TRUE, FALSE, FALSE, "No module named packmol_wrapper"),
                      << >>, FALSE)
      [] outcome = "mkdtemp_fail" ->
             Executed(StepDict("substitution", TRUE, FALSE, FALSE, "mkdtemp failed"),
                      Advance(Advance(<< >>, 25), 25), TRUE)
      [] OTHER ->
             LET result == gas_substitution_workflow(outcome)
             IN  Executed(StepDict("substitution", TRUE, result.ok, FALSE, result.error),
                          Advance(Advance(Advance(<< >>, 25), 25), 50), TRUE)

\* _execute_visual_validation: advance 25, validate_structure, advance 75.
\* The dictionary of validate_structure has no 'success' key.
_execute_visual_validation(outcome) ==
    IF outcome = "import_fail"
    THEN Executed(StepDict("validation", TRUE, FALSE, FALSE, "No module named visual_validation"),
                  << >>, FALSE)
    ELSE LET result == validate_structure(outcome)
         IN  Executed(StepDict("validation", FALSE, FALSE, result.ok, result.error),
                      Advance(Advance(<< >>, 25), 75), TRUE)

\* _execute_analysis: advance 25, the analyzer is built (it loads the
\* trajectory), advance 50, full_analysis, advance 75.
_execute_analysis(outcome) ==
    CASE outcome = "import_fail" ->
             Executed(StepDict("analysis", TRUE, FALSE, FALSE, "No module named analysis"),
                      << >>, FALSE)
      [] outcome = "load_fail" ->
             Executed(StepDict("analysis", TRUE, FALSE, FALSE, "Trajectory not readable"),
                      Advance(<< >>, 25), TRUE)
      [] outcome = "raise" ->
             Executed(StepDict("analysis", TRUE, FALSE, FALSE, "Trajectory analyzer failed"),
                      Advance(Advance(<< >>, 25), 50), TRUE)
      [] OTHER ->
             Executed(StepDict("analysis", TRUE, TRUE, FALSE, None),
                      Advance(Advance(Advance(<< >>, 25), 50), 75), TRUE)

\* _execute_presentation: advance 25, advance 50, then
\* create_weekly_update_presentation(analysis_dir=, output_file=, title=),
\* which has no parameter title and raises TypeError; the advance 75 after
\* it is never reached.
_execute_presentation(outcome) ==
    IF outcome = "import_fail"
    THEN Executed(StepDict("presentation", TRUE, FALSE, FALSE, "No module named pptx"),
                  << >>, FALSE)
    ELSE Executed(StepDict("presentation", TRUE, FALSE, FALSE, "unexpected keyword argument title"),
                  Advance(Advance(<< >>, 25), 50), TRUE)

\* The step that follows, by the flags of the call.
AfterAnalysis(f) == IF f.create_presentation THEN "presentation" ELSE "finish"
AfterValidation(f) == IF f.run_analysis THEN "analysis" ELSE AfterAnalysis(f)
AfterSubstitution(f) == IF f.visual_validation THEN "validation" ELSE AfterValidation(f)

\* workflow_results['steps'][name] = result
RecordStep(res, result) == [res EXCEPT !.steps = Append(@, result)]

\* progress.add_task(..., total=100), the executor's updates and
\* progress.update(task, completed=100)
TaskDone(name, reported) == [task |-> name, values |-> SetCompleted(reported, 100)]

\* A test that lets the workflow go on after any substitution result.
SubstitutionFailedNever(result) == FALSE

\* if not substitution_result['success']: raise RuntimeError(...)
SubstitutionFailed(result) == ~result.success

InitGas ==
    /\ sys = "gas"
    /\ toolsLoaded = TRUE
    /\ CoreInit
    /\ RestInit

GasCall ==
    /\ sys = "gas" /\ gpc = "idle" /\ calls < MaxCalls
    /\ flags' \in [visual_validation : BOOLEAN, run_analysis : BOOLEAN,
                    create_presentation : BOOLEAN]
    /\ workflow_results' = NoWorkflowResults
    /\ gpc' = "substitution"
    /\ calls' = calls + 1
    /\ UNCHANGED << sys, request, cursor, started, invoked, faulted, toolsLoaded,
                    progress, orchVars, agentVars, entityVars,
                    packmolVars, threadVars >>

\* Step 1; a failed substitution raises RuntimeError("Gas substitution
\* failed"), which the handler of execute_complete_workflow turns into
\* success False and the error.
GasSubstitution ==
    /\ sys = "gas" /\ gpc = "substitution"
    /\ \E outcome \in GasSubstitutionOutcomes :
         LET did == _execute_gas_substitution(outcome)
         IN  /\ started' = Append(started, "substitution")
             /\ invoked' = IF did.called
                            THEN Append(invoked, "gas_substitution_workflow") ELSE invoked
             /\ IF SubstitutionFailed(did.result)
                THEN /\ workflow_results' =
                           [RecordStep(workflow_results, did.result)
                               EXCEPT !.success = FALSE, !.error = "Gas substitution failed"]
                     /\ progress' = Append(progress,
                                           [task |-> "substitution", values |-> did.reported])
                     /\ gpc' = "returned"
                ELSE /\ workflow_results' = RecordStep(workflow_results, did.result)
                     /\ progress' = Append(progress, TaskDone("substitution", did.reported))
                     /\ gpc' = AfterSubstitution(flags)
    /\ UNCHANGED << sys, request, calls, cursor, faulted, toolsLoaded, flags,
                    orchVars, agentVars, entityVars,
                    packmolVars, threadVars >>

GasValidation ==
    /\ sys = "gas" /\ gpc = "validation"
    /\ \E outcome \in GasValidationOutcomes :
         LET did == _execute_visual_validation(outcome)
         IN  /\ started' = Append(started, "validation")
             /\ invoked' = IF did.called THEN Append(invoked, "validate_structure") ELSE invoked
             /\ workflow_results' = RecordStep(workflow_results, did.result)
             /\ progress' = Append(progress, TaskDone("validation", did.reported))
    /\ gpc' = AfterValidation(flags)
    /\ UNCHANGED << sys, request, calls, cursor, faulted, toolsLoaded, flags,
                    orchVars, agentVars, entityVars,
                    packmolVars, threadVars >>

GasAnalysis ==
    /\ sys = "gas" /\ gpc = "analysis"
    /\ \E outcome \in GasAnalysisOutcomes :
         LET did == _execute_analysis(outcome)
         IN  /\ started' = Append(started, "analysis")
             /\ invoked' = IF did.called THEN Append(invoked, "full_analysis") ELSE invoked
             /\ workflow_results' = RecordStep(workflow_results, did.result)
             /\ progress' = Append(progress, TaskDone("analysis", did.reported))
    /\ gpc' = AfterAnalysis(flags)
    /\ UNCHANGED << sys, request, calls, cursor, faulted, toolsLoaded, flags,
                    orchVars, agentVars, entityVars,
                    packmolVars, threadVars >>

GasPresentation ==
    /\ sys = "gas" /\ gpc = "presentation"
    /\ \E outcome \in GasPresentationOutcomes :
         LET did == _execute_presentation(outcome)
         IN  /\ started' = Append(started, "presentation")
             /\ invoked' = IF did.called
                            THEN Append(invoked, "create_weekly_update_presentation")
                            ELSE invoked
             /\ workflow_results' = RecordStep(workflow_results, did.result)
             /\ progress' = Append(progress, TaskDone("presentation", did.reported))
    /\ gpc' = "finish"
    /\ UNCHANGED << sys, request, calls, cursor, faulted, toolsLoaded, flags,
                    orchVars, agentVars, entityVars,
                    packmolVars, threadVars >>

\* workflow_results['success'] = True
GasFinish ==
    /\ sys = "gas" /\ gpc = "finish"
    /\ workflow_results' = [workflow_results EXCEPT !.success = TRUE]
    /\ gpc' = "returned"
    /\ UNCHANGED << sys, request, calls, cursor, started, invoked, faulted, toolsLoaded,
                    flags, progress, orchVars, agentVars, entityVars,
                    packmolVars, threadVars >>

\* return workflow_results; the locals of the call end with it
GasReturn ==
    /\ sys = "gas" /\ gpc = "returned"
    /\ gpc' = "idle"
    /\ flags' = NoFlags
    /\ workflow_results' = NoWorkflowResults
    /\ progress' = << >>
    /\ started' = << >>
    /\ invoked' = << >>
    /\ UNCHANGED << sys, request, calls, cursor, faulted, toolsLoaded,
                    orchVars, agentVars, entityVars,
                    packmolVars, threadVars >>

NextGas ==
    \/ GasCall
    \/ GasSubstitution
    \/ GasValidation
    \/ GasAnalysis
    \/ GasPresentation
    \/ GasFinish
    \/ GasReturn

SpecGas == InitGas /\ [][NextGas]_vars

StepSucceeded(result) == IF result.has_success THEN result.success ELSE result.approved

\* C27: in the result of execute_complete_workflow success = true implies
\* that every step recorded under steps succeeded; a failed validation,
\* analysis or presentation step makes the overall success flag false.
C27_SuccessMeansAllStepsSucceeded ==
    (sys = "gas" /\ gpc = "returned" /\ workflow_results.success) =>
        \A k \in DOMAIN workflow_results.steps : StepSucceeded(workflow_results.steps[k])

\* C28: if the substitution step fails, none of the validation, analysis
\* and presentation steps is started, only the substitution step is
\* recorded, and the result has success = false with an error message.
C28_FailedSubstitutionStopsWorkflow ==
    ( /\ sys = "gas"
      /\ workflow_results.steps # << >>
      /\ ~workflow_results.steps[1].success )
    => /\ gpc = "returned"
       /\ started = << "substitution" >>
       /\ Len(workflow_results.steps) = 1
       /\ workflow_results.steps[1].step = "substitution"
       /\ Len(progress) = 1
       /\ \A k \in DOMAIN invoked : invoked[k] = "gas_substitution_workflow"
       /\ ~workflow_results.success
       /\ workflow_results.error = "Gas substitution failed"

\* A call with every optional step switched on whose packing call came back
\* with success False.
C28_Witness ==
    /\ sys = "gas" /\ gpc = "returned"
    /\ flags.visual_validation /\ flags.run_analysis /\ flags.create_presentation
    /\ invoked = << "gas_substitution_workflow" >>
    /\ ~workflow_results.steps[1].success
    /\ ~workflow_results.success

-----------------------------------------------------------------------------
(* plugins/ai/packmol_wrapper.py: one ProbaahPackmol instance whose         *)
(* gas_substitution_workflow and cleanup are called in any order            *)

MaxOps == 4             \* operations called on the instance in one behaviour

InitPackmol ==
    /\ sys = "packmol"
    /\ toolsLoaded = TRUE
    /\ CoreInit
    /\ RestInit

\* gas_substitution_workflow: tempfile.mkdtemp makes a directory of its own
\* for the call (here numbered by the call) and self.temp_dir is set to it;
\* neither the success path nor the failure path removes it.  mkdtemp stands
\* before the try block, so its failure leaves the method as an exception.
PackmolWorkflow ==
    /\ sys = "packmol" /\ Len(invoked) < MaxOps
    /\ \E outcome \in {"mkdtemp_fail"} \cup PackmolOutcomes :
         IF outcome = "mkdtemp_fail"
         THEN /\ packmol_result' = NoPackmolResult
              /\ UNCHANGED << calls, temp_dir, dirs >>
         ELSE LET result == gas_substitution_workflow(outcome)
              IN  /\ calls' = calls + 1
                  /\ temp_dir' = calls + 1
                  /\ dirs' = dirs \cup {calls + 1}
                  /\ packmol_result' = [success |-> result.ok, error |-> result.error,
                                        temp_dir |-> calls + 1]
    /\ invoked' = Append(invoked, "gas_substitution_workflow")
    /\ UNCHANGED << sys, request, cursor, started, faulted, toolsLoaded,
                    orchVars, agentVars, entityVars, gasVars, threadVars >>

\* cleanup: if self.temp_dir and self.temp_dir.exists():
\* shutil.rmtree(self.temp_dir); self.temp_dir = None
PackmolCleanup ==
    /\ sys = "packmol" /\ Len(invoked) < MaxOps
    /\ IF temp_dir # 0 /\ temp_dir \in dirs
       THEN /\ dirs' = dirs \ {temp_dir}
            /\ temp_dir' = 0
       ELSE UNCHANGED << temp_dir, dirs >>
    /\ invoked' = Append(invoked, "cleanup")
    /\ UNCHANGED << sys, request, calls, cursor, started, faulted, toolsLoaded,
                    packmol_result, orchVars, agentVars, entityVars, gasVars, threadVars >>

NextPackmol == PackmolWorkflow \/ PackmolCleanup

SpecPackmol == InitPackmol /\ [][NextPackmol]_vars

\* C29: after cleanup() returns, no temporary working directory made by an
\* earlier gas_substitution_workflow call of the instance still exists,
\* whatever the number of workflow calls before the cleanup.
C29_CleanupRemovesEveryTempDir ==
    (sys = "packmol" /\ invoked # << >> /\ invoked[Len(invoked)] = "cleanup") => dirs = {}

-----------------------------------------------------------------------------
(* MDCrowAgent.process_request called by several threads on one instance:  *)
(* nothing in the class serializes the calls, so a thread can be preempted *)
(* between any two statements                                              *)

MaxThreads == 2         \* threads that call process_request once each

\* An append that puts the entry in front.
HistoryPrepend(history, type, t) == << HistoryEntry(type, t) >> \o history

\* self.conversation_history.append({...}) by the call of thread t
HistoryAppend(history, type, t) == Append(history, HistoryEntry(type, t))

ThreadAt(pc, success) == [pc |-> pc, success |-> success]

InitThreads ==
    /\ sys = "threads"
    /\ toolsLoaded = TRUE
    /\ CoreInit
    /\ ToolsAtRest
    /\ threads = [t \in 1..MaxThreads |-> ThreadAt("idle", FALSE)]

\* the first append of process_request
ThreadRequest(t) ==
    /\ sys = "threads" /\ threads[t].pc = "idle"
    /\ conversation_history' = HistoryAppend(conversation_history, "user_request", t)
    /\ threads' = [threads EXCEPT ![t] = ThreadAt("analyze", FALSE)]
    /\ UNCHANGED << sys, request, calls, cursor, started, invoked, faulted, toolsLoaded,
                    intent, tool_plan, tool_results, response, apc, orchVars,
                    entityVars, gasVars, packmolVars >>

\* response = self._generate_response(request), stage by stage; the stages
\* work on locals of the call, and the tools succeed or not
ThreadAnalyze(t) ==
    /\ sys = "threads" /\ threads[t].pc = "analyze"
    /\ threads' = [threads EXCEPT ![t] = ThreadAt("plan", FALSE)]
    /\ UNCHANGED << sys, toolsLoaded, coreVars, entityVars, gasVars, packmolVars >>

ThreadPlan(t) ==
    /\ sys = "threads" /\ threads[t].pc = "plan"
    /\ threads' = [threads EXCEPT ![t] = ThreadAt("execute", FALSE)]
    /\ UNCHANGED << sys, toolsLoaded, coreVars, entityVars, gasVars, packmolVars >>

ThreadExecute(t) ==
    /\ sys = "threads" /\ threads[t].pc = "execute"
    /\ \E ok \in BOOLEAN : threads' = [threads EXCEPT ![t] = ThreadAt("synthesize", ok)]
    /\ UNCHANGED << sys, toolsLoaded, coreVars, entityVars, gasVars, packmolVars >>

ThreadSynthesize(t) ==
    /\ sys = "threads" /\ threads[t].pc = "synthesize"
    /\ threads' = [threads EXCEPT ![t] = ThreadAt("respond", @.success)]
    /\ UNCHANGED << sys, toolsLoaded, coreVars, entityVars, gasVars, packmolVars >>

\* the second append of process_request, and the return
ThreadRespond(t) ==
    /\ sys = "threads" /\ threads[t].pc = "respond"
    /\ conversation_history' = HistoryAppend(conversation_history, "agent_response", t)
    /\ threads' = [threads EXCEPT ![t] = ThreadAt("done", @.success)]
    /\ UNCHANGED << sys, request, calls, cursor, started, invoked, faulted, toolsLoaded,
                    intent, tool_plan, tool_results, response, apc, orchVars,
                    entityVars, gasVars, packmolVars >>

NextThreads ==
    \E t \in 1..MaxThreads :
        \/ ThreadRequest(t)
        \/ ThreadAnalyze(t)
        \/ ThreadPlan(t)
        \/ ThreadExecute(t)
        \/ ThreadSynthesize(t)
        \/ ThreadRespond(t)

SpecThreads == InitThreads /\ [][NextThreads]_vars

\* The positions of the entries of a type that the call of thread t left.
EntriesOf(type, t) ==
    { i \in DOMAIN conversation_history :
        conversation_history[i] = HistoryEntry(type, t) }

\* C25: when two process_request calls on one MDCrowAgent interleave with
\* no lock, the history still holds, for each call, its user_request entry
\* directly followed by the agent_response entry of that call.
C25_PairsNeverSplit ==
    sys = "threads" =>
        \A t \in DOMAIN threads : \A i \in EntriesOf("user_request", t) :
            threads[t].pc = "done" =>
                /\ i < Len(conversation_history)
                /\ conversation_history[i + 1] = HistoryEntry("agent_response", t)

\* C25 as the code has it: every call leaves its user_request entry once
\* and, after it, its agent_response entry once; the two are adjacent
\* whenever no other call has begun, and an entry that stands between them
\* is an entry of another call.
C25_PairsOrdered ==
    sys = "threads" =>
        \A t \in DOMAIN threads :
            LET req  == EntriesOf("user_request", t)
                resp == EntriesOf("agent_response", t)
            IN  /\ Cardinality(req) = (IF threads[t].pc = "idle" THEN 0 ELSE 1)
                /\ Cardinality(resp) = (IF threads[t].pc = "done" THEN 1 ELSE 0)
                /\ \A i \in req : \A j \in resp :
                      /\ i < j
                      /\ (\A u \in DOMAIN threads : u # t => threads[u].pc = "idle")
                            => j = i + 1

\* Both calls are done and the request of the second stands between the
\* entries of the first.
C25_Witness ==
    /\ sys = "threads"
    /\ \A t \in DOMAIN threads : threads[t].pc = "done"
    /\ Len(conversation_history) >= 4
    /\ conversation_history[1] = HistoryEntry("user_request", 1)
    /\ conversation_history[2] = HistoryEntry("user_request", 2)
    /\ conversation_history[3] = HistoryEntry("agent_response", 1)

\* C26: every step the agent's planner emits supplies every argument its
\* collaborator operation requires (a gas_substitution_workflow step a
\* geometry, a validate_structure step a structure file), so that no
\* planned step fails in _execute_tools for a missing required argument.
C26_PlannedStepsSupplyRequired ==
    (sys = "plan" /\ apc = "planned") =>
        \A k \in DOMAIN tool_plan :
            Required(tool_plan[k].action) \subseteq tool_plan[k].params

\* C30: every substitute, analyze and validate step of one workflow is handed
\* the first file entity of the whole request as its input file, whatever
\* file its own fragment names and whatever the steps before it returned.
C30_StepsReceiveFirstFileOfRequest ==
    (sys = "orch" /\ invoked # << >>) =>
        LET files == OrchExtractFiles(request.tokens)
        IN  /\ Len(received) = Len(invoked)
            /\ \A k \in DOMAIN invoked :
                  IF NeedsFile(invoked[k])
                  THEN files # << >> /\ received[k] = files[1]
                  ELSE received[k] = None

\* Both steps of "a.xyz substitute then analyze traj.xyz" reached their
\* collaborator; the second fragment names traj.xyz and the analysis was
\* given a.xyz.
C30_Witness ==
    /\ sys = "orch" /\ opc = "store"
    /\ request.tokens = << "a.xyz", "substitute", "then", "analyze", "traj.xyz" >>
    /\ invoked = << "substitute", "analyze" >>
    /\ "traj.xyz" \in Range(command.workflow_steps[2].description)
    /\ received = << "a.xyz", "a.xyz" >>
    /\ Len(results.steps) = 2 /\ results.steps[1].success

=============================================================================
